---------------------------- MODULE Spec2Model ----------------------------
(***************************************************************************)
(* Model of backend/scripts/patch_appointments.py: a one-shot patcher that *)
(* reads a file, finds two marker comments with str.find, replaces the     *)
(* text from the first marker up to the second one by a fixed block and    *)
(* writes the file back.                                                   *)
(*                                                                         *)
(* A text is a sequence of pieces; the text it stands for is the           *)
(* concatenation of its pieces, and every index is counted in pieces.      *)
(* Indices are 0-based and slices are half-open, as in Python.             *)
(*                                                                         *)
(* Both opens are in text mode with the default newline handling: reading  *)
(* turns every "\r\n" and "\r" into "\n", writing turns every "\n" into    *)
(* os.linesep.  No piece starts with "\n", so both translations work piece  *)
(* by piece.                                                               *)
(*                                                                         *)
(* The file system is the environment: each open, read, write and close    *)
(* either succeeds or raises.  f.write may return with any part of the     *)
(* text still buffered, the rest reaching the file when the with block     *)
(* closes the handle; a write or a close that raises leaves a prefix of    *)
(* the new text in the truncated file.  After a successful run the script  *)
(* may be run again on the file it produced.                               *)
(***************************************************************************)
EXTENDS Integers, Sequences, FiniteSets, TLC

(* ------------------------------ bounds --------------------------------- *)
\* number of segments the initial document is assembled from
MaxSegs == 3
\* number of times the script is run on the same file
MaxRuns == 2

(* ------------------------- the script's literals ----------------------- *)
Pre == "// Notificar al "
Est == "estilista "
SiExiste == "si existe mapping user_id"
Cliente == "cliente por push (si tiene token registrado en customer_app_settings)"
Indent == "      "
Internal == "(Internal Notification, WhatsApp, Email)\n"
\* lines 20-116 of the script: the rest of the replacement block, which
\* holds neither marker and ends with an empty line
BlockRest == "      try { ... }\n\n"
\* any other text of the patched file: a line ended by "\n", by "\r\n" or by
\* a lone "\r"
Other == "x\n"
OtherCRLF == "x\r\n"
OtherCR == "x\r"
\* the pieces of the replacement block as written where os.linesep is "\r\n"
InternalCRLF == "(Internal Notification, WhatsApp, Email)\r\n"
BlockRestCRLF == "      try { ... }\r\n\r\n"
\* what is in the file of a piece that reached it only in part
Torn == "<part of a piece>"
\* the values of os.linesep
LF == "\n"
CRLF == "\r\n"

start_marker == <<Pre, Est, SiExiste>>
end_marker == <<Pre, Cliente>>

new_blockWithMarker == start_marker \o <<Indent, Pre, Est, Internal, BlockRest>>
new_block == <<Indent, Pre, Est, Internal, BlockRest>>

SuccessText == "Successfully patched appointments.js"
FailureText == "Markers not found!"

\* value of str.find when there is no occurrence
NotFound == -1
\* start_idx / end_idx before lines 12-13 have bound them
Unbound == -2
\* exit status of a process that has not exited yet
NoExit == -1

(* --------------------------- Python primitives ------------------------- *)
\* a piece as f.read() returns it: "\r\n" and "\r" are read as "\n"
ReadNewline(p) ==
  IF p \in {OtherCRLF, OtherCR} THEN Other
  ELSE IF p = InternalCRLF THEN Internal
  ELSE IF p = BlockRestCRLF THEN BlockRest
  ELSE p

\* f.read() on a file opened with newline=None
read_newlines(text) == [i \in 1..Len(text) |-> ReadNewline(text[i])]

\* a piece as f.write() stores it: "\n" is written as os.linesep
WriteNewline(p, sep) ==
  IF sep = LF THEN p
  ELSE IF p = Other THEN OtherCRLF
  ELSE IF p = Internal THEN InternalCRLF
  ELSE IF p = BlockRest THEN BlockRestCRLF
  ELSE p

\* what f.write(text) stores in a file opened with newline=None
write_newlines(text, sep) == [i \in 1..Len(text) |-> WriteNewline(text[i], sep)]

\* the first k pieces of text, followed by a part of the next one when torn
Partial(text, k, torn) ==
  SubSeq(text, 1, k) \o (IF torn /\ k < Len(text) THEN <<Torn>> ELSE <<>>)

\* the number of pieces of a partly written file that are there in full
Whole(f) == IF f # <<>> /\ f[Len(f)] = Torn THEN Len(f) - 1 ELSE Len(f)

\* clamp a slice bound as Python does: negative bounds count from the end
PyIndex(i, n) ==
  IF i < 0 THEN (IF i + n < 0 THEN 0 ELSE i + n)
  ELSE (IF i > n THEN n ELSE i)

\* s[:i]
SliceTo(s, i) == SubSeq(s, 1, PyIndex(i, Len(s)))

\* s[i:]
SliceFrom(s, i) == SubSeq(s, PyIndex(i, Len(s)) + 1, Len(s))

\* str.find scanning from position i upwards
RECURSIVE findFrom(_, _, _)
findFrom(s, sub, i) ==
  IF i + Len(sub) > Len(s) THEN NotFound
  ELSE IF SubSeq(s, i + 1, i + Len(sub)) = sub THEN i
  ELSE findFrom(s, sub, i + 1)

\* the last occurrence instead of the first (str.rfind)
RECURSIVE rfindFrom(_, _, _)
rfindFrom(s, sub, i) ==
  IF i < 0 THEN NotFound
  ELSE IF SubSeq(s, i + 1, i + Len(sub)) = sub THEN i
  ELSE rfindFrom(s, sub, i - 1)

rfind(s, sub) == rfindFrom(s, sub, Len(s) - Len(sub))

\* s.find(sub): offset of the first occurrence, or -1
find(s, sub) == findFrom(s, sub, 0)

\* a splice that refuses an inverted region
spliceOrdered(text, s, e, repl) ==
  SliceTo(text, s) \o repl \o SliceFrom(text, IF e < s THEN s ELSE e)

\* a splice that also consumes the end marker
spliceDropEnd(text, s, e, repl) ==
  SliceTo(text, s) \o repl \o SliceFrom(text, e + Len(end_marker))

\* line 118: content[:start_idx] + new_block + content[end_idx:]
splice(text, s, e, repl) == SliceTo(text, s) \o repl \o SliceFrom(text, e)

\* "and" where the script says "or"
MarkersMissingBoth(s, e) == s = NotFound /\ e = NotFound

\* line 15: start_idx == -1 or end_idx == -1
MarkersMissing(s, e) == s = NotFound \/ e = NotFound

\* the two indices printed in the wrong order
FailureMsgSwapped(s, e) == [text |-> FailureText, start |-> e, end |-> s]

\* line 16: f"Markers not found! start={start_idx}, end={end_idx}"
FailureMsg(s, e) == [text |-> FailureText, start |-> s, end |-> e]

\* line 123
SuccessMsg == [text |-> SuccessText]

(* ------------------------------ documents ------------------------------ *)
Segments == {start_marker, end_marker, <<Other>>, <<OtherCRLF>>, <<OtherCR>>}

RECURSIVE Flatten(_)
Flatten(segs) == IF segs = <<>> THEN <<>> ELSE Head(segs) \o Flatten(Tail(segs))

Docs == { Flatten(segs) : segs \in UNION { [1..n -> Segments] : n \in 0..MaxSegs } }

(* -------------------------------- state -------------------------------- *)
VARIABLES
  linesep,      \* os.linesep of the platform the script runs on
  file,         \* contents of the file at file_path
  content,      \* the script's variable content
  start_idx,    \* the script's variable start_idx
  end_idx,      \* the script's variable end_idx
  new_content,  \* the script's variable new_content
  rh,           \* the handle of open(file_path, "r") is open
  wh,           \* the handle of open(file_path, "w") is open
  stdout,       \* lines printed
  stderr,       \* uncaught exceptions reported by the interpreter
  exit_status,  \* exit status of the process, NoExit while it runs
  pc,           \* the statement to execute next
  run,          \* which run of the script this is
  before,       \* contents of the file when this run started
  w_opens,      \* number of times this run opened the file for writing
  writes,       \* number of completed f.write calls of this run
  history       \* what the earlier runs ended with

vars == <<linesep, file, content, start_idx, end_idx, new_content, rh, wh, stdout,
          stderr, exit_status, pc, run, before, w_opens, writes, history>>

Init ==
  /\ file \in Docs
  /\ before = file
  /\ content = <<>>
  /\ start_idx = Unbound
  /\ end_idx = Unbound
  /\ new_content = <<>>
  /\ rh = FALSE
  /\ wh = FALSE
  /\ stdout = <<>>
  /\ stderr = <<>>
  /\ exit_status = NoExit
  /\ pc = "open_r"
  /\ run = 1
  /\ w_opens = 0
  /\ writes = 0
  /\ history = <<>>
  /\ linesep \in {LF, CRLF}

\* an exception nobody catches: traceback on stderr, exit status 1
Crash(line) ==
  /\ stderr' = Append(stderr, [exc |-> "OSError", line |-> line])
  /\ exit_status' = 1
  /\ pc' = "done"

(* ------------------------------- actions ------------------------------- *)
\* line 6: open(file_path, "r") succeeds
OpenRead ==
  /\ pc = "open_r"
  /\ rh' = TRUE
  /\ pc' = "read"
  /\ UNCHANGED <<linesep, file, content, start_idx, end_idx, new_content, wh, stdout,
                 stderr, exit_status, run, before, w_opens, writes, history>>

\* line 6: open(file_path, "r") raises
OpenReadFail ==
  /\ pc = "open_r"
  /\ Crash(6)
  /\ UNCHANGED <<linesep, file, content, start_idx, end_idx, new_content, rh, wh,
                 stdout, run, before, w_opens, writes, history>>

\* the read handle is never closed
ReadLeak ==
  /\ pc = "read"
  /\ content' = read_newlines(file)
  /\ pc' = "find"
  /\ UNCHANGED <<linesep, file, start_idx, end_idx, new_content, rh, wh, stdout,
                 stderr, exit_status, run, before, w_opens, writes, history>>

\* line 7 and the end of the with block: f.read() returns the text with its
\* line ends translated, then the handle closes
Read ==
  /\ pc = "read"
  /\ content' = read_newlines(file)
  /\ rh' = FALSE
  /\ pc' = "find"
  /\ UNCHANGED <<linesep, file, start_idx, end_idx, new_content, wh, stdout,
                 stderr, exit_status, run, before, w_opens, writes, history>>

\* line 7: f.read() raises; the with block closes the handle
ReadFail ==
  /\ pc = "read"
  /\ rh' = FALSE
  /\ Crash(7)
  /\ UNCHANGED <<linesep, file, content, start_idx, end_idx, new_content, wh,
                 stdout, run, before, w_opens, writes, history>>

\* lines 12-13
Find ==
  /\ pc = "find"
  /\ start_idx' = find(content, start_marker)
  /\ end_idx' = find(content, end_marker)
  /\ pc' = "check"
  /\ UNCHANGED <<linesep, file, content, new_content, rh, wh, stdout, stderr,
                 exit_status, run, before, w_opens, writes, history>>

\* the diagnostic is printed but exit(1) is missing
CheckMarkersNoExit ==
  /\ pc = "check"
  /\ stdout' = IF MarkersMissing(start_idx, end_idx)
               THEN Append(stdout, FailureMsg(start_idx, end_idx))
               ELSE stdout
  /\ pc' = "splice"
  /\ UNCHANGED <<linesep, file, content, start_idx, end_idx, new_content, rh, wh,
                 stderr, exit_status, run, before, w_opens, writes, history>>

\* lines 15-17
CheckMarkers ==
  /\ pc = "check"
  /\ IF MarkersMissing(start_idx, end_idx)
     THEN /\ stdout' = Append(stdout, FailureMsg(start_idx, end_idx))
          /\ exit_status' = 1
          /\ pc' = "done"
     ELSE /\ pc' = "splice"
          /\ UNCHANGED <<linesep, stdout, exit_status>>
  /\ UNCHANGED <<linesep, file, content, start_idx, end_idx, new_content, rh, wh,
                 stderr, run, before, w_opens, writes, history>>

\* line 118
Splice ==
  /\ pc = "splice"
  /\ new_content' = splice(content, start_idx, end_idx, new_block)
  /\ pc' = "open_w"
  /\ UNCHANGED <<linesep, file, content, start_idx, end_idx, rh, wh, stdout, stderr,
                 exit_status, run, before, w_opens, writes, history>>

\* line 120: open(file_path, "w") succeeds and truncates the file
OpenWrite ==
  /\ pc = "open_w"
  /\ file' = <<>>
  /\ wh' = TRUE
  /\ w_opens' = w_opens + 1
  /\ pc' = "write"
  /\ UNCHANGED <<linesep, content, start_idx, end_idx, new_content, rh, stdout,
                 stderr, exit_status, run, before, writes, history>>

\* line 120: open(file_path, "w") raises; the file is not touched
OpenWriteFail ==
  /\ pc = "open_w"
  /\ Crash(120)
  /\ UNCHANGED <<linesep, file, content, start_idx, end_idx, new_content, rh,
                 wh, stdout, run, before, w_opens, writes, history>>

\* line 121: f.write(new_content) returns; a beginning of the text has
\* reached the file (nothing of a text that fits the buffers, all of a larger
\* one unless write(2) came short) and the rest is in the buffers of the
\* handle
Write ==
  /\ pc = "write"
  /\ \E k \in 0..Len(new_content), torn \in BOOLEAN :
       file' = Partial(write_newlines(new_content, linesep), k, torn)
  /\ writes' = writes + 1
  /\ pc' = "close_w"
  /\ UNCHANGED <<linesep, content, start_idx, end_idx, new_content, rh, wh,
                 stdout, stderr, exit_status, run, before, w_opens, history>>

\* the exception of a failed write is swallowed
WriteFailSwallowed ==
  /\ pc = "write"
  /\ \E k \in 0..(Len(new_content) - 1), torn \in BOOLEAN :
       file' = Partial(write_newlines(new_content, linesep), k, torn)
  /\ wh' = FALSE
  /\ stderr' = Append(stderr, [exc |-> "OSError", line |-> 121])
  /\ pc' = "print"
  /\ UNCHANGED <<linesep, content, start_idx, end_idx, new_content, rh,
                 stdout, exit_status, run, before, w_opens, writes, history>>

\* line 121: f.write(new_content) raises (a text larger than the buffers)
\* when only a part of the text has reached the file; the with block closes
\* the handle and the exception propagates
WriteFail ==
  /\ pc = "write"
  /\ \E k \in 0..(Len(new_content) - 1), torn \in BOOLEAN :
       file' = Partial(write_newlines(new_content, linesep), k, torn)
  /\ wh' = FALSE
  /\ Crash(121)
  /\ UNCHANGED <<linesep, content, start_idx, end_idx, new_content, rh,
                 stdout, run, before, w_opens, writes, history>>

\* only the replacement block reaches the file
CloseWriteBlockOnly ==
  /\ pc = "close_w"
  /\ file' = write_newlines(new_block, linesep)
  /\ wh' = FALSE
  /\ pc' = "print"
  /\ UNCHANGED <<linesep, content, start_idx, end_idx, new_content, rh,
                 stdout, stderr, exit_status, run, before, w_opens, writes,
                 history>>

\* end of the with block of line 120: the buffered text is flushed and the
\* handle closes
CloseWrite ==
  /\ pc = "close_w"
  /\ file' = write_newlines(new_content, linesep)
  /\ wh' = FALSE
  /\ pc' = "print"
  /\ UNCHANGED <<linesep, content, start_idx, end_idx, new_content, rh,
                 stdout, stderr, exit_status, run, before, w_opens, writes,
                 history>>

\* end of the with block of line 120: the flush raises when no more than a
\* part of the buffered text has reached the file; the handle is closed all
\* the same and the traceback names line 120
CloseWriteFail ==
  /\ pc = "close_w"
  /\ \E k \in Whole(file)..Len(new_content), torn \in BOOLEAN :
       /\ file' = Partial(write_newlines(new_content, linesep), k, torn)
       /\ Len(file') >= Len(file)
  /\ wh' = FALSE
  /\ Crash(120)
  /\ UNCHANGED <<linesep, content, start_idx, end_idx, new_content, rh,
                 stdout, run, before, w_opens, writes, history>>

\* line 123, then the script ends
PrintSuccess ==
  /\ pc = "print"
  /\ stdout' = Append(stdout, SuccessMsg)
  /\ exit_status' = 0
  /\ pc' = "done"
  /\ UNCHANGED <<linesep, file, content, start_idx, end_idx, new_content, rh, wh,
                 stderr, run, before, w_opens, writes, history>>

\* the script is run once more on the file a successful run produced
Rerun ==
  /\ pc = "done"
  /\ exit_status = 0
  /\ run < MaxRuns
  /\ history' = Append(history, [exit_status |-> exit_status,
                                 stderr |-> stderr,
                                 content |-> content,
                                 end_idx |-> end_idx])
  /\ run' = run + 1
  /\ before' = file
  /\ content' = <<>>
  /\ start_idx' = Unbound
  /\ end_idx' = Unbound
  /\ new_content' = <<>>
  /\ rh' = FALSE
  /\ wh' = FALSE
  /\ stdout' = <<>>
  /\ stderr' = <<>>
  /\ exit_status' = NoExit
  /\ pc' = "open_r"
  /\ w_opens' = 0
  /\ writes' = 0
  /\ UNCHANGED <<linesep, file>>

Next ==
  \/ OpenRead
  \/ OpenReadFail
  \/ Read
  \/ ReadFail
  \/ Find
  \/ CheckMarkers
  \/ Splice
  \/ OpenWrite
  \/ OpenWriteFail
  \/ Write
  \/ WriteFail
  \/ CloseWrite
  \/ CloseWriteFail
  \/ PrintSuccess
  \/ Rerun

Spec == Init /\ [][Next]_vars

(* ---------------------- vocabulary of the properties ------------------- *)
\* sub occurs in s at offset i
OccursAt(s, sub, i) ==
  /\ i >= 0
  /\ i + Len(sub) <= Len(s)
  /\ \A k \in 1..Len(sub) : s[i + k] = sub[k]

Occs(s, sub) == { i \in 0..Len(s) : OccursAt(s, sub, i) }

Occurs(s, sub) == Occs(s, sub) # {}

\* the least offset at which sub occurs in s, NotFound when there is none
FirstOcc(s, sub) ==
  IF Occs(s, sub) = {} THEN NotFound
  ELSE CHOOSE i \in Occs(s, sub) : \A j \in Occs(s, sub) : i <= j

\* a line end of the text: "\n", "\r\n" or "\r"
LineEnd(p) == p \in {Other, OtherCRLF, OtherCR, Internal, InternalCRLF,
                     BlockRest, BlockRestCRLF}

\* two texts that differ at most in how their line ends are written
SameLines(s, t) ==
  /\ Len(s) = Len(t)
  /\ \A i \in 1..Len(s) : s[i] = t[i] \/ (LineEnd(s[i]) /\ LineEnd(t[i]))

\* the document: the text of the file the run started from, with "\n" for
\* every line end
Doc == [i \in 1..Len(before) |->
          IF before[i] \in {OtherCRLF, OtherCR} THEN Other
          ELSE IF before[i] = InternalCRLF THEN Internal
          ELSE IF before[i] = BlockRestCRLF THEN BlockRest
          ELSE before[i]]

\* a text with every "\n" written as sep
Encoded(text, sep) ==
  [i \in 1..Len(text) |->
     IF sep = LF THEN text[i]
     ELSE IF text[i] = Other THEN OtherCRLF
     ELSE IF text[i] = Internal THEN InternalCRLF
     ELSE IF text[i] = BlockRest THEN BlockRestCRLF
     ELSE text[i]]

\* s is what is in a file of which only the beginning of text was written
IsWrittenPrefix(s, text) ==
  \E k \in 0..Len(text) :
    \/ s = SubSeq(text, 1, k)
    \/ k < Len(text) /\ s = SubSeq(text, 1, k) \o <<Torn>>

BothPresent == Occurs(Doc, start_marker) /\ Occurs(Doc, end_marker)

\* text[0:startIndex] + replacement + text[endIndex:] for the first
\* occurrences of the two markers in the document
Expected ==
  SubSeq(Doc, 1, FirstOcc(Doc, start_marker)) \o new_block
    \o SubSeq(Doc, FirstOcc(Doc, end_marker) + 1, Len(Doc))

\* the file that holds the text Expected on this platform
ExpectedFile == Encoded(Expected, linesep)

Terminated == pc = "done"

IOFailed == stderr # <<>>

\* the write of line 121 and the close of its with block are both over
Written == pc \in {"print", "done"} /\ writes = 1 /\ ~IOFailed

Printed(msg) == \E i \in 1..Len(stdout) : stdout[i] = msg

PrintedFailure == \E i \in 1..Len(stdout) : stdout[i].text = FailureText

\* the previous run succeeded
PrevSucceeded == history # <<>> /\ history[Len(history)].exit_status = 0

\* the start marker occurred in text[endIndex:] of the previous run
PrevKeptStartMarker ==
  Occurs(SliceFrom(history[Len(history)].content,
                   history[Len(history)].end_idx), start_marker)

(* ------------------------------ properties ----------------------------- *)
\* the run opened the file for writing, changed it, or ended otherwise than
\* with exit status 1 and no success message
TouchedOrSucceeded ==
  \/ w_opens # 0
  \/ writes # 0
  \/ wh
  \/ file # before
  \/ Terminated /\ (exit_status # 1 \/ Printed(SuccessMsg))

\* C1: when the start marker, the end marker or both are absent from the
\* document, the file is never opened for writing and never changes, and the
\* run ends with a non-zero exit status and the file as it was (stated by
\* contraposition: any of these happens only with both markers present).
C1_MissingMarkerFailsClosed == TouchedOrSucceeded => BothPresent

C1_Witness ==
  /\ Terminated
  /\ ~IOFailed
  /\ Occurs(Doc, end_marker)
  /\ ~Occurs(Doc, start_marker)
  /\ \E i \in 1..Len(before) : before[i] = OtherCRLF
  /\ content = Doc
  /\ file = before
  /\ exit_status = 1

\* C2: once the write has completed, the text written is
\* text[0:startIndex] + replacement + text[endIndex:] for the first
\* occurrences of the two markers in the document, and the file holds
\* exactly that text with the line ends of the platform; for
\* A + start + MIDDLE + end + B with each marker occurring once and start
\* before end the text is A + replacement + end + B.
C2_SplicedTextWritten ==
  Written =>
    /\ BothPresent
    /\ new_content = Expected
    /\ file = ExpectedFile
    /\ SameLines(file, Expected)
    /\ \A i \in Occs(Doc, start_marker), j \in Occs(Doc, end_marker) :
         ( /\ Cardinality(Occs(Doc, start_marker)) = 1
           /\ Cardinality(Occs(Doc, end_marker)) = 1
           /\ i < j )
         => new_content = SubSeq(Doc, 1, i) \o new_block \o end_marker
                            \o SubSeq(Doc, j + Len(end_marker) + 1, Len(Doc))

C2_Witness ==
  /\ Terminated
  /\ exit_status = 0
  /\ linesep = LF
  /\ before = start_marker \o <<OtherCRLF>> \o end_marker
  /\ content = start_marker \o <<Other>> \o end_marker
  /\ file = new_block \o end_marker

\* C3 (state part): a run that ends without an I/O failure ends either
\* Patched (exit status 0, file written once, success message), exactly when
\* both markers were found, or Aborted (exit status 1, nothing written),
\* exactly when a marker is missing; the file is written at most once.
C3_Outcome ==
  /\ writes <= 1
  /\ w_opens <= 1
  /\ ~Terminated => exit_status = NoExit
  /\ (Terminated /\ ~IOFailed) =>
       \/ /\ exit_status = 0
          /\ BothPresent
          /\ w_opens = 1
          /\ writes = 1
          /\ file = Encoded(new_content, linesep)
          /\ stdout = <<SuccessMsg>>
       \/ /\ exit_status = 1
          /\ ~BothPresent
          /\ w_opens = 0
          /\ writes = 0
          /\ file = before

\* position of a statement in the script
Rank(p) ==
  CASE p = "open_r" -> 0 [] p = "read" -> 1 [] p = "find" -> 2
    [] p = "check" -> 3 [] p = "splice" -> 4 [] p = "open_w" -> 5
    [] p = "write" -> 6 [] p = "close_w" -> 7 [] p = "print" -> 8
    [] p = "done" -> 9

\* a step either moves the run forward in the script or starts the next run
\* from a finished one
C3_Forward ==
  \/ run' = run /\ Rank(pc') > Rank(pc)
  \/ run' = run + 1 /\ Terminated /\ pc' = "open_r"

\* C3: the run goes from Searching to exactly one of Patched and Aborted
\* (absent I/O failure); no statement is executed twice and a run that has
\* not ended can always take its next step, so every run ends.
C3_StateMachine ==
  /\ []C3_Outcome
  /\ [](~Terminated => ENABLED Next)
  /\ [][C3_Forward]_vars

C3_Witness ==
  /\ Terminated
  /\ ~IOFailed
  /\ exit_status = 0
  /\ BothPresent
  /\ writes = 1
  /\ run = 1

\* C4: when the start marker occurs more than once and the end marker is
\* present, the indices are those of the first occurrences: the text before
\* the first start marker is unchanged, the text from there up to the first
\* end marker is replaced, and nothing is reported about the duplicate.
C4_FirstOccurrenceOnly ==
  ( /\ start_idx # Unbound
    /\ Cardinality(Occs(Doc, start_marker)) > 1
    /\ Occurs(Doc, end_marker) )
  =>
    /\ start_idx = FirstOcc(Doc, start_marker)
    /\ end_idx = FirstOcc(Doc, end_marker)
    /\ ~PrintedFailure
    /\ Written =>
         /\ SliceTo(new_content, start_idx) = SliceTo(Doc, start_idx)
         /\ SameLines(SliceTo(file, start_idx), SliceTo(before, start_idx))
         /\ new_content = Expected
         /\ file = ExpectedFile

C4_Witness ==
  /\ Cardinality(Occs(Doc, start_marker)) > 1
  /\ Occurs(Doc, end_marker)
  /\ Terminated
  /\ exit_status = 0
  /\ start_idx >= 0
  /\ start_idx < end_idx
  /\ Occs(Doc, start_marker) \ {start_idx} # {}

\* C5 as stated: a second run on the file a successful run produced ends
\* with a failure status, the start marker not found and the file unchanged.
C5_SecondRunFails ==
  (PrevSucceeded /\ Terminated /\ ~IOFailed) =>
    /\ exit_status = 1
    /\ file = before
    /\ start_idx = NotFound

\* C5 amended: a second run on the file a successful run produced, when the
\* start marker did not occur in text[endIndex:] of that run, ends with a
\* failure status, the start marker not found and the file unchanged.
C5_SecondRunFailsWhenMarkerConsumed ==
  (PrevSucceeded /\ ~PrevKeptStartMarker /\ Terminated) =>
    /\ exit_status = 1
    /\ file = before
    /\ ~Printed(SuccessMsg)
    /\ ~IOFailed => (start_idx = NotFound /\ PrintedFailure)

C5_Witness ==
  /\ PrevSucceeded
  /\ ~PrevKeptStartMarker
  /\ Terminated
  /\ ~IOFailed
  /\ start_idx = NotFound
  /\ end_idx > 0
  /\ file = before

\* C6: a run aborted for a missing marker prints exactly one diagnostic,
\* which gives for each marker its first offset or -1; it never prints the
\* success message, and a successful run never prints the diagnostic.
C6_OneDiagnostic ==
  /\ (Terminated /\ ~IOFailed /\ exit_status = 1) =>
       /\ stdout = << [text |-> FailureText,
                       start |-> FirstOcc(Doc, start_marker),
                       end |-> FirstOcc(Doc, end_marker)] >>
       /\ stdout[1].start = NotFound \/ stdout[1].end = NotFound
  /\ Printed(SuccessMsg) => ~PrintedFailure
  /\ (Terminated /\ exit_status = 0) => stdout = <<SuccessMsg>>

C6_Witness ==
  /\ Terminated
  /\ Len(stdout) = 1
  /\ stdout[1].text = FailureText
  /\ stdout[1].start = NotFound
  /\ stdout[1].end > 0

\* C7: the file is opened for writing only after the read is over, its
\* handle is closed and both markers are located; the two handles are never
\* open together and none is open when the run has ended.
C7_HandleProtocol ==
  /\ ~(rh /\ wh)
  /\ rh => pc = "read"
  /\ wh => pc \in {"write", "close_w"}
  /\ w_opens > 0 =>
       /\ pc \in {"write", "close_w", "print", "done"}
       /\ ~rh
       /\ content = Doc
       /\ start_idx >= 0
       /\ end_idx >= 0
  /\ Terminated => (~rh /\ ~wh)

C7_Witness == wh /\ ~rh /\ w_opens = 1 /\ start_idx >= 0 /\ end_idx >= 0

\* C8: an I/O failure ends the run at once with a failure status, is not
\* retried and is never followed by the success message; the success message
\* is printed only after the whole text has been written and the handle
\* closed.
C8_IOFailureIsFatal ==
  /\ IOFailed =>
       /\ Terminated
       /\ exit_status = 1
       /\ Len(stderr) = 1
       /\ ~Printed(SuccessMsg)
  /\ Printed(SuccessMsg) =>
       /\ writes = 1
       /\ file = Encoded(new_content, linesep)
       /\ ~wh

C8_Witness ==
  /\ IOFailed
  /\ stderr[1].line = 120
  /\ writes = 1
  /\ file # Encoded(new_content, linesep)
  /\ file # <<>>
  /\ Terminated

\* C9: with both markers present and the first end marker before the first
\* start marker, the run still succeeds and writes
\* text[0:startIndex] + replacement + text[endIndex:]: the segment
\* text[endIndex:startIndex] appears twice, the start marker is still there,
\* the output is longer than input plus replacement, and nothing is
\* reported.
C9_InvertedIndices ==
  ( /\ Terminated
    /\ ~IOFailed
    /\ BothPresent
    /\ FirstOcc(Doc, end_marker) < FirstOcc(Doc, start_marker) )
  =>
    /\ exit_status = 0
    /\ stdout = <<SuccessMsg>>
    /\ new_content = Expected
    /\ file = ExpectedFile
    /\ Len(file) > Len(before) + Len(new_block)
    /\ Occurs(file, start_marker)
    /\ LET s == FirstOcc(Doc, start_marker)
           e == FirstOcc(Doc, end_marker)
           seg == SubSeq(Doc, e + 1, s)
       IN /\ SubSeq(new_content, e + 1, s) = seg
          /\ SubSeq(new_content, s + Len(new_block) + 1,
                    s + Len(new_block) + (s - e)) = seg

C9_Witness ==
  /\ Terminated
  /\ exit_status = 0
  /\ end_idx >= 0
  /\ end_idx < start_idx
  /\ file = Encoded(new_content, linesep)

\* C10 as stated: when a run has ended the file holds either the original
\* text or the complete spliced text.
C10_AllOrNothing ==
  Terminated => (file = before \/ (BothPresent /\ file = ExpectedFile))

\* C10 amended: when a run has ended the file holds the original text or
\* the complete spliced text, except that after a write or a close that
\* failed once the file was opened for writing it holds only a beginning of
\* the spliced text, possibly nothing.
C10_AllOrPrefix ==
  Terminated =>
    \/ file = before
    \/ BothPresent /\ file = ExpectedFile
    \/ /\ BothPresent
       /\ w_opens = 1
       /\ IOFailed
       /\ stderr[1].line \in {120, 121}
       /\ IsWrittenPrefix(file, ExpectedFile)

C10_Witness ==
  /\ Terminated
  /\ w_opens = 1
  /\ stderr = << [exc |-> "OSError", line |-> 120] >>
  /\ file = <<>>
  /\ before # <<>>
  /\ exit_status = 1

=============================================================================
